---------------------------- MODULE Spec2Model ----------------------------
(***************************************************************************)
(* A model of the pokerboots reference code:                               *)
(*   src/pokerboots-contracts/src/deck_rng.py       (DRBG, shuffle, verify) *)
(*   src/pokerboots-contracts/tools/build_table.py  (hand-table builder)    *)
(*   src/pokerboots-contracts/scripts/test_deck_shuffler.py (harness)       *)
(*                                                                         *)
(* Python bytes are sequences of integers in 0..255 (1-indexed here, so    *)
(* Python's b[x] is b[x+1]).  A Python int that may exceed the machine     *)
(* word (the nonce) is its sequence of base-256 digits, least significant  *)
(* first, without leading zeros.                                           *)
(***************************************************************************)
EXTENDS Integers, Sequences, FiniteSets, TLC

\* ------------------------------------------------------------------ bounds
\* Longest server_seed / client_seed enumerated.
MaxSeedLen == 1
\* _stretch is entered directly with every size in 0..MaxSize.
MaxSize == 66
\* fisher_yates is entered directly with streams of 51..52+MaxExtra bytes.
MaxExtra == 1
\* chi_square is entered with num_trials in 1..MaxTrials.
MaxTrials == 4
\* The hand table is built over the cards 0..TableCards-1.
TableCards == 17
\* The devnet contract has served 0..MaxPriorRequests requests beforehand.
MaxPriorRequests == 7

\* ------------------------------------------------------- program constants
BYTE == 256
DECK_SIZE == 52
RANKS == 13
NONCE_BYTES == 8
STRETCH_SIZE == 512
DIGEST_SIZE == 32
HAND_SIZE == 7
SUITS == 4
PACKED_SIZE == 104

\* ------------------------------------------------------------------ helpers
Take(s, n) == SubSeq(s, 1, IF n < Len(s) THEN n ELSE Len(s))

Rev(s) == [x \in 1..Len(s) |-> s[Len(s) + 1 - x]]

Zeros(n) == [x \in 1..n |-> 0]

Range(s) == {s[x] : x \in 1..Len(s)}

SeqsUpTo(S, n) == UNION {[1..m -> S] : m \in 0..n}

\* ------------------------------------------------------------ hashlib.sha256
(***************************************************************************)
(* hashlib.sha256(m).digest(): a deterministic map from byte strings to    *)
(* DIGEST_SIZE bytes.  SHA-256 itself is library code; it is stood in for  *)
(* by a small mixing function with the same signature, so that a digest    *)
(* differs from its input and from the digest of its digest.               *)
(***************************************************************************)
RECURSIVE Absorb(_, _, _)
Absorb(m, t, acc) ==
    IF t > Len(m) THEN acc
    ELSE Absorb(m, t + 1, (acc * 33 + m[t] + 1) % 65521)

sha256(m) ==
    LET acc == Absorb(m, 1, 17 + Len(m))
    IN  [x \in 1..DIGEST_SIZE |-> ((acc + x) * ((acc % 251) + 2 * x + 1)) % BYTE]

\* .hexdigest(): two hexadecimal digits per byte, high nibble first.
hexdigest(d) ==
    [x \in 1..(2 * Len(d)) |->
        IF x % 2 = 1 THEN d[(x + 1) \div 2] \div 16 ELSE d[x \div 2] % 16]

\* -------------------------------------------------------------- int.to_bytes
\* nonce.to_bytes(8, 'big') succeeds iff the nonce has at most 8 digits.
to_bytes_fits_signed(n, length) ==
    Len(n) < length \/ (Len(n) = length /\ n[length] < 128)

to_bytes_fits(n, length) == Len(n) <= length

to_bytes(n, length) == Zeros(length - Len(n)) \o Rev(n)

\* ------------------------------------------------------------------- inputs
SeedBytes == {97, 98}

Seeds == SeqsUpTo(SeedBytes, MaxSeedLen)

\* The nonces 0, 1, 2^64-1 (the largest that fits 8 bytes) and 2^64.
Nonces ==
    {<<>>, <<1>>, [x \in 1..NONCE_BYTES |-> BYTE - 1],
     Zeros(NONCE_BYTES) \o <<1>>}

Triples == Seeds \X Seeds \X Nonces

\* fisher_yates entered directly: byte streams a, a+b, a+2b, ... (mod 256).
Stream(a, b, len) == [x \in 1..len |-> (a + b * (x - 1)) % BYTE]

Streams ==
    {Stream(a, b, len) : a \in {0, 200}, b \in {0, 1, 37},
                         len \in (DECK_SIZE - 1)..(DECK_SIZE + MaxExtra)}

\* pack_two_felts entered directly: 52 card values, repeats allowed.
PackDecks ==
    {[x \in 1..DECK_SIZE |-> (a + b * (x - 1)) % DECK_SIZE] :
        a \in {0, 51}, b \in {0, 1, 5}}

\* -------------------------------------------------------------------- state
VARIABLES
    entry,        \* the function the caller entered
    pc,           \* the function now executing, "done" or "raised"
    raised,       \* the exception that ended the call, or "none"
    server_seed, client_seed, nonce,   \* deal's / verify_deck's arguments
    seed, size, key, out,              \* _stretch's argument and locals
    stretched, deck,                   \* deal's locals
    random_vals, rng, i, j, k,         \* fisher_yates's locals
    d, deck_json,                      \* the caller's deck, verify_deck's claim
    pdeck, packed, pi,                 \* pack_two_felts's argument and locals
    ret                                \* the entered function's return value

VARIABLES
    num_trials, trial, counts, chi_pc, chi2   \* chi_square

VARIABLES
    seven, table, table_pc                    \* build_table.py

VARIABLES
    h_pc,         \* test_oracle_flow's position
    h_raised,     \* the exception that ended the test, or "none"
    calls,        \* the external calls issued so far, in order
    req_id,       \* the harness's local req_id (-1: not yet assigned)
    h_deck,       \* the harness's local deck
    next_id,      \* contract: the id the next request gets
    requests      \* contract: request id -> record

chiVars == <<num_trials, trial, counts, chi_pc, chi2>>
tableVars == <<seven, table, table_pc>>
harnessVars == <<h_pc, h_raised, calls, req_id, h_deck, next_id,
                 requests>>

nonRng == <<chiVars, tableVars, harnessVars>>

rngVars == <<entry, pc, raised, server_seed, client_seed, nonce, seed, size,
             key, out, stretched, deck, random_vals, rng, i, j, k, d,
             deck_json, pdeck, packed, pi, ret>>

stretchLocals == <<seed, size, key, out>>
fyLocals == <<random_vals, rng, i, j, k>>
packLocals == <<pdeck, packed, pi>>
dealArgs == <<server_seed, client_seed, nonce>>

IsPermutation(s) == Len(s) = DECK_SIZE /\ Range(s) = 0..(DECK_SIZE - 1)

Identity == [x \in 1..DECK_SIZE |-> x - 1]

\* ------------------------------------------------------------- _stretch
\* lines 10-11: key = sha256(seed).digest(); out = b""
StretchEnter(sd, sz) ==
    /\ seed' = sd
    /\ size' = sz
    /\ key' = sha256(sd)
    /\ out' = <<>>

\* The loop body with its two statements exchanged: the digest is appended
\* before it is rehashed.
StretchStepAppendFirst ==
    /\ pc = "_stretch"
    /\ Len(out) < size
    /\ out' = out \o key
    /\ key' = sha256(key)
    /\ UNCHANGED <<entry, pc, raised, dealArgs, seed, size, stretched, deck,
                   fyLocals, d, deck_json, packLocals, ret>>
    /\ UNCHANGED nonRng

\* lines 12-14: one turn of the while loop
StretchStep ==
    /\ pc = "_stretch"
    /\ Len(out) < size
    /\ key' = sha256(key)
    /\ out' = out \o key'
    /\ UNCHANGED <<entry, pc, raised, dealArgs, seed, size, stretched, deck,
                   fyLocals, d, deck_json, packLocals, ret>>
    /\ UNCHANGED nonRng

\* fisher_yates lines 23-25: rng = list(range(52)); random_vals; j = 0
FisherYatesEnter(bytes) ==
    /\ rng' = Identity
    /\ random_vals' = bytes
    /\ j' = 0
    /\ i' = 0
    /\ k' = 0

\* line 15: return out[:size]; in deal, line 41 then enters fisher_yates
StretchReturn ==
    /\ pc = "_stretch"
    /\ Len(out) >= size
    /\ IF entry = "_stretch"
       THEN /\ ret' = Take(out, size)
            /\ pc' = "done"
            /\ UNCHANGED <<stretched, fyLocals>>
       ELSE /\ stretched' = Take(out, size)
            /\ FisherYatesEnter(stretched')
            /\ pc' = "fisher_yates"
            /\ UNCHANGED ret
    /\ UNCHANGED <<entry, raised, dealArgs, stretchLocals, deck, d, deck_json,
                   packLocals>>
    /\ UNCHANGED nonRng

\* ----------------------------------------------------------- fisher_yates
\* The index the loop body reads from random_vals (Python, 0-based) once j
\* has been incremented.
ByteIndexSkipping(jj) == jj + 2

ByteIndex(jj) == jj + 1

ModulusWholeDeck(ii) == DECK_SIZE

Modulus(ii) == DECK_SIZE - ii

\* lines 26-29: one turn of the for loop.  A list index out of range raises.
FisherYatesStep ==
    /\ pc = "fisher_yates"
    /\ i < DECK_SIZE - 1
    /\ LET jn == ByteIndex(j)
       IN IF jn >= Len(random_vals)
          THEN /\ raised' = "IndexError"
               /\ pc' = "raised"
               /\ j' = jn
               /\ UNCHANGED <<rng, i, k>>
          ELSE LET kn == random_vals[jn + 1] % Modulus(i)
               IN /\ j' = jn
                  /\ k' = kn
                  /\ IF i + kn >= Len(rng)
                     THEN /\ raised' = "IndexError"
                          /\ pc' = "raised"
                          /\ UNCHANGED <<rng, i>>
                     ELSE /\ rng' = [rng EXCEPT ![i + 1] = rng[i + kn + 1],
                                                ![i + kn + 1] = rng[i + 1]]
                          /\ i' = i + 1
                          /\ UNCHANGED <<raised, pc>>
    /\ UNCHANGED <<entry, dealArgs, stretchLocals, stretched, deck,
                   random_vals, d, deck_json, packLocals, ret>>
    /\ UNCHANGED nonRng

verify_deck_unordered(expected, claimed) ==
    Len(expected) = Len(claimed) /\ Range(expected) = Range(claimed)

\* verify_deck line 46: return expected == deck_json
verify_deck_result(expected, claimed) == expected = claimed

\* line 30: return rng; in deal, line 42 returns (deck, commit); in
\* verify_deck, line 46 then compares.
FisherYatesReturn ==
    /\ pc = "fisher_yates"
    /\ i = DECK_SIZE - 1
    /\ pc' = "done"
    /\ CASE entry = "fisher_yates" ->
              /\ ret' = rng
              /\ UNCHANGED deck
         [] entry = "deal" ->
              /\ deck' = rng
              /\ ret' = <<rng, hexdigest(sha256(server_seed))>>
         [] entry = "verify_deck" ->
              /\ deck' = rng
              /\ ret' = verify_deck_result(rng, deck_json)
    /\ UNCHANGED <<entry, raised, dealArgs, stretchLocals, stretched,
                   fyLocals, d, deck_json, packLocals>>
    /\ UNCHANGED nonRng

\* ------------------------------------------------------------------- deal
DealSeedUnpadded(s, c, n) == s \o c \o Rev(n)

\* line 39: seed = server_seed + client_seed + nonce.to_bytes(8,'big')
DealSeed(s, c, n) == s \o c \o to_bytes(n, NONCE_BYTES)

\* lines 39-40: build the seed (to_bytes raises OverflowError on a nonce that
\* does not fit) and enter _stretch with the default size.
DealEnter ==
    /\ pc = "deal"
    /\ IF to_bytes_fits(nonce, NONCE_BYTES)
       THEN /\ StretchEnter(DealSeed(server_seed, client_seed, nonce),
                            STRETCH_SIZE)
            /\ pc' = "_stretch"
            /\ UNCHANGED raised
       ELSE /\ raised' = "OverflowError"
            /\ pc' = "raised"
            /\ UNCHANGED stretchLocals
    /\ UNCHANGED <<entry, dealArgs, stretched, deck, fyLocals, d, deck_json,
                   packLocals, ret>>
    /\ UNCHANGED nonRng

\* ------------------------------------------------------------ verify_deck
\* What a caller may hand to verify_deck after deal returned dk: dk itself,
\* or dk changed in one position, reordered, shortened or lengthened.
Claimed(dk) ==
    {dk,
     [dk EXCEPT ![1] = dk[2], ![2] = dk[1]],
     [dk EXCEPT ![DECK_SIZE] = dk[1]],
     Take(dk, DECK_SIZE - 1),
     Append(dk, dk[1])}

\* TestRNG.test_reproducible lines 63-64: d,_ = deal(s, c, n); then
\* verify_deck(claim, s, c, n), which line 45 starts by calling deal again.
VerifyEnter ==
    /\ pc = "done"
    /\ entry = "deal"
    /\ entry' = "verify_deck"
    /\ d' = ret[1]
    /\ deck_json' \in Claimed(ret[1])
    /\ pc' = "deal"
    /\ seed' = <<>> /\ size' = 0 /\ key' = <<>> /\ out' = <<>>
    /\ stretched' = <<>> /\ deck' = <<>>
    /\ random_vals' = <<>> /\ rng' = <<>> /\ i' = 0 /\ j' = 0 /\ k' = 0
    /\ ret' = <<>>
    /\ UNCHANGED <<raised, dealArgs, packLocals>>
    /\ UNCHANGED nonRng

\* --------------------------------------------------------- pack_two_felts
FeltsSuitFirst(c) == <<c \div RANKS, c % RANKS>>

\* line 35: the two elements appended for card c
Felts(c) == <<c % RANKS, c \div RANKS>>

\* lines 34-35: one turn of the for loop
PackStep ==
    /\ pc = "pack_two_felts"
    /\ pi < Len(pdeck)
    /\ packed' = packed \o Felts(pdeck[pi + 1])
    /\ pi' = pi + 1
    /\ UNCHANGED <<entry, pc, raised, dealArgs, stretchLocals, stretched,
                   deck, fyLocals, d, deck_json, pdeck, ret>>
    /\ UNCHANGED nonRng

\* line 36: return packed
PackReturn ==
    /\ pc = "pack_two_felts"
    /\ pi = Len(pdeck)
    /\ ret' = packed
    /\ pc' = "done"
    /\ UNCHANGED <<entry, raised, dealArgs, stretchLocals, stretched, deck,
                   fyLocals, d, deck_json, packLocals>>
    /\ UNCHANGED nonRng

\* ------------------------------------------------------------------- Init
RngIdle ==
    /\ entry = "idle" /\ pc = "idle"
    /\ raised = "none"
    /\ server_seed = <<>> /\ client_seed = <<>> /\ nonce = <<>>
    /\ seed = <<>> /\ size = 0 /\ key = <<>> /\ out = <<>>
    /\ stretched = <<>> /\ deck = <<>>
    /\ random_vals = <<>> /\ rng = <<>> /\ i = 0 /\ j = 0 /\ k = 0
    /\ d = <<>> /\ deck_json = <<>>
    /\ pdeck = <<>> /\ packed = <<>> /\ pi = 0
    /\ ret = <<>>

InitDeal ==
    /\ entry = "deal" /\ pc = "deal"
    /\ raised = "none"
    /\ server_seed \in Seeds /\ client_seed \in Seeds /\ nonce \in Nonces
    /\ seed = <<>> /\ size = 0 /\ key = <<>> /\ out = <<>>
    /\ stretched = <<>> /\ deck = <<>>
    /\ random_vals = <<>> /\ rng = <<>> /\ i = 0 /\ j = 0 /\ k = 0
    /\ d = <<>> /\ deck_json = <<>>
    /\ pdeck = <<>> /\ packed = <<>> /\ pi = 0
    /\ ret = <<>>

InitStretch ==
    /\ entry = "_stretch" /\ pc = "_stretch"
    /\ raised = "none"
    /\ server_seed = <<>> /\ client_seed = <<>> /\ nonce = <<>>
    /\ seed \in Seeds /\ size \in 0..MaxSize
    /\ key = sha256(seed) /\ out = <<>>
    /\ stretched = <<>> /\ deck = <<>>
    /\ random_vals = <<>> /\ rng = <<>> /\ i = 0 /\ j = 0 /\ k = 0
    /\ d = <<>> /\ deck_json = <<>>
    /\ pdeck = <<>> /\ packed = <<>> /\ pi = 0
    /\ ret = <<>>

InitFisherYates ==
    /\ entry = "fisher_yates" /\ pc = "fisher_yates"
    /\ raised = "none"
    /\ server_seed = <<>> /\ client_seed = <<>> /\ nonce = <<>>
    /\ seed = <<>> /\ size = 0 /\ key = <<>> /\ out = <<>>
    /\ stretched = <<>> /\ deck = <<>>
    /\ random_vals \in Streams /\ rng = Identity /\ i = 0 /\ j = 0 /\ k = 0
    /\ d = <<>> /\ deck_json = <<>>
    /\ pdeck = <<>> /\ packed = <<>> /\ pi = 0
    /\ ret = <<>>

InitPack ==
    /\ entry = "pack_two_felts" /\ pc = "pack_two_felts"
    /\ raised = "none"
    /\ server_seed = <<>> /\ client_seed = <<>> /\ nonce = <<>>
    /\ seed = <<>> /\ size = 0 /\ key = <<>> /\ out = <<>>
    /\ stretched = <<>> /\ deck = <<>>
    /\ random_vals = <<>> /\ rng = <<>> /\ i = 0 /\ j = 0 /\ k = 0
    /\ d = <<>> /\ deck_json = <<>>
    /\ pdeck \in PackDecks /\ packed = <<>> /\ pi = 0
    /\ ret = <<>>

ChiIdle ==
    /\ num_trials = 0 /\ trial = 0 /\ counts = <<>> /\ chi_pc = "idle"
    /\ chi2 = <<0, 1>>

TableIdle == seven = <<>> /\ table = <<>> /\ table_pc = "idle"

HarnessIdle ==
    /\ h_pc = "idle" /\ h_raised = "none" /\ calls = <<>>
    /\ req_id = -1 /\ h_deck = <<>>
    /\ next_id = 0 /\ requests = <<>>

Init ==
    /\ InitDeal \/ InitStretch \/ InitFisherYates \/ InitPack
    /\ ChiIdle /\ TableIdle /\ HarnessIdle

Next ==
    \/ DealEnter
    \/ StretchStep
    \/ StretchReturn
    \/ FisherYatesStep
    \/ FisherYatesReturn
    \/ VerifyEnter
    \/ PackStep
    \/ PackReturn

vars == <<rngVars, chiVars, tableVars, harnessVars>>

Spec == Init /\ [][Next]_vars

\* ========================================================= deck_rng claims
\* Reference definitions the properties are stated against.
\* The digests D1, D2, ... of a seed: D1 = sha256(seed), D(n+1) = sha256(Dn).
RECURSIVE Digest(_, _)
Digest(sd, n) == IF n = 1 THEN sha256(sd) ELSE sha256(Digest(sd, n - 1))

\* Dfirst || D(first+1) || ... : as many digests as size bytes need.
RECURSIVE DigestsFrom(_, _, _)
DigestsFrom(dg, blocks, acc) ==
    IF blocks = 0 THEN acc
    ELSE DigestsFrom(sha256(dg), blocks - 1, acc \o dg)

Blocks(sz) == (sz + DIGEST_SIZE - 1) \div DIGEST_SIZE

StreamFromD1(sd, sz) == Take(DigestsFrom(Digest(sd, 1), Blocks(sz), <<>>), sz)

StreamFromD2(sd, sz) == Take(DigestsFrom(Digest(sd, 2), Blocks(sz), <<>>), sz)

\* The shuffle of the specification: step ii swaps ii and ii+k with
\* k = stream[ii + offset] % (52 - ii), Python indices.
RECURSIVE ReferenceShuffle(_, _, _, _)
ReferenceShuffle(list, stream, ii, offset) ==
    IF ii = DECK_SIZE - 1 THEN list
    ELSE LET kk == stream[ii + offset + 1] % (DECK_SIZE - ii)
         IN ReferenceShuffle(
                [list EXCEPT ![ii + 1] = list[ii + kk + 1],
                             ![ii + kk + 1] = list[ii + 1]],
                stream, ii + 1, offset)

\* C1: the deck deal returns is a permutation of 0..51; inside fisher_yates
\* the list is a permutation of 0..51 before and after every swap, every
\* swap index i+k lies in 0..51, and no index error arises from a swap.
C1_DeckIsPermutation ==
    /\ pc = "fisher_yates" => IsPermutation(rng)
    /\ (pc = "fisher_yates" /\ i > 0) => (i - 1) + k \in 0..(DECK_SIZE - 1)
    /\ raised = "IndexError" => j >= Len(random_vals)
    /\ entry \in {"deal", "verify_deck"} => raised # "IndexError"
    /\ (pc = "done" /\ entry = "deal") => IsPermutation(ret[1])
    /\ (pc = "done" /\ entry = "fisher_yates") => IsPermutation(ret)

C1_Witness ==
    /\ pc = "done"
    /\ entry = "deal"
    /\ IsPermutation(ret[1])
    /\ ret[1] # Identity
    /\ i = DECK_SIZE - 1

\* C2: verify_deck answers TRUE for the deck deal returned for the same
\* seeds and nonce, FALSE for every claimed deck that differs from it (in a
\* position or in length), and never raises on a mismatch.
C2_VerifyRoundTrip ==
    /\ (pc = "done" /\ entry = "verify_deck") =>
           /\ ret \in BOOLEAN
           /\ ret = (deck_json = d)
    /\ (entry = "verify_deck") => pc # "raised" /\ raised = "none"

C2_Witness ==
    /\ pc = "done"
    /\ entry = "verify_deck"
    /\ ret = FALSE
    /\ Len(deck_json) = DECK_SIZE
    /\ Range(deck_json) = Range(d)

\* C3: pack_two_felts returns 104 elements; for every position p the
\* elements 2p and 2p+1 are (c mod 13, c div 13) of the card c at p, the
\* first in 0..12, the second in 0..3, and c = packed[2p] + 13*packed[2p+1].
C3_PackTwoFelts ==
    (pc = "done" /\ entry = "pack_two_felts") =>
        /\ Len(ret) = 2 * DECK_SIZE
        /\ \A p \in 0..(DECK_SIZE - 1) :
              LET c == pdeck[p + 1]
              IN /\ ret[2 * p + 1] = c % RANKS
                 /\ ret[2 * p + 2] = c \div RANKS
                 /\ ret[2 * p + 1] \in 0..(RANKS - 1)
                 /\ ret[2 * p + 2] \in 0..3
                 /\ c = ret[2 * p + 1] + RANKS * ret[2 * p + 2]

C3_Witness ==
    /\ pc = "done"
    /\ entry = "pack_two_felts"
    /\ pdeck[1] = 51
    /\ ret[1] = 12
    /\ ret[2] = 3
    /\ Len(ret) = 104

\* C5 as stated: deal never raises, whatever the non-negative nonce.
C5_DealNeverRaises ==
    entry = "deal" => (pc # "raised" /\ raised = "none")

\* C5 amended: for a nonce below 2^64 deal does not raise, is never stuck
\* before it returns, and returns a (deck, commit digest) pair; for a nonce
\* of 2^64 or more it raises OverflowError.
C5_DealCompletesBelow2To64 ==
    entry = "deal" =>
        /\ Len(nonce) <= NONCE_BYTES =>
              /\ pc # "raised"
              /\ raised = "none"
              /\ pc # "done" => ENABLED Next
              /\ pc = "done" =>
                    /\ Len(ret) = 2
                    /\ Len(ret[1]) = DECK_SIZE
                    /\ ret[2] = hexdigest(sha256(server_seed))
                    /\ Len(ret[2]) = 2 * DIGEST_SIZE
        /\ (Len(nonce) > NONCE_BYTES /\ pc # "deal") =>
              pc = "raised" /\ raised = "OverflowError"

C5_Witness ==
    /\ entry = "deal"
    /\ pc = "done"
    /\ Len(nonce) = NONCE_BYTES
    /\ nonce[NONCE_BYTES] = 255
    /\ Len(client_seed) = 0
    /\ Len(ret) = 2

\* C7 as stated: _stretch returns the first size bytes of D1 || D2 || ...
C7_StretchStartsAtD1 ==
    (pc = "done" /\ entry = "_stretch") => ret = StreamFromD1(seed, size)

\* C7 amended: _stretch returns exactly size bytes, the first size bytes of
\* D2 || D3 || ... (D1 = SHA-256(seed) is hashed again before anything is
\* appended); for size >= 32 the first 32 bytes are SHA-256(SHA-256(seed)).
C7_StretchStartsAtD2 ==
    /\ (pc = "done" /\ entry = "_stretch") =>
           /\ Len(ret) = size
           /\ ret = StreamFromD2(seed, size)
           /\ size >= DIGEST_SIZE =>
                 Take(ret, DIGEST_SIZE) = sha256(sha256(seed))
    /\ (pc = "fisher_yates" /\ entry = "deal" /\ i = 0) =>
           /\ Len(stretched) = STRETCH_SIZE
           /\ stretched = StreamFromD2(seed, STRETCH_SIZE)

C7_Witness ==
    /\ pc = "done"
    /\ entry = "_stretch"
    /\ size = 2 * DIGEST_SIZE + 1
    /\ Len(ret) = size
    /\ Take(ret, DIGEST_SIZE) # sha256(seed)

\* C8 as stated: step i of fisher_yates uses the byte at stream index i.
C8_ShuffleUsesByteI ==
    (pc = "done" /\ entry = "fisher_yates") =>
        ret = ReferenceShuffle(Identity, random_vals, 0, 0)

\* C8 amended: for a stream of at least 52 bytes fisher_yates returns the
\* reference shuffle in which step i (i = 0..50) uses the byte at stream
\* index i+1; the byte at index 0 is never used and position 51 is never
\* the left-hand position of a swap.
C8_ShuffleUsesByteIPlus1 ==
    /\ (entry = "fisher_yates" /\ Len(random_vals) >= DECK_SIZE) =>
           /\ pc # "raised"
           /\ pc = "done" =>
                 ret = ReferenceShuffle(Identity, random_vals, 0, 1)
    /\ (pc = "done" /\ entry = "deal") =>
           ret[1] = ReferenceShuffle(Identity, stretched, 0, 1)
    /\ pc = "fisher_yates" => (i <= DECK_SIZE - 1 /\ j = i)

C8_Witness ==
    /\ pc = "done"
    /\ entry = "fisher_yates"
    /\ Len(random_vals) = DECK_SIZE
    /\ random_vals[1] # random_vals[2]
    /\ ret # ReferenceShuffle(Identity, random_vals, 0, 0)
    /\ ret # Identity

\* The seed triples other than the one deal was called with whose nonce fits.
OtherTriples ==
    {t \in Triples :
        t # <<server_seed, client_seed, nonce>> /\ Len(t[3]) <= NONCE_BYTES}

SeedBuilt == entry = "deal" /\ pc = "_stretch" /\ out = <<>>

\* C9 as stated: no other seed triple yields the DRBG seed of this one.
C9_SeedInjective ==
    SeedBuilt =>
        \A t \in OtherTriples : DealSeed(t[1], t[2], t[3]) # seed

\* C9 amended: the DRBG seed is server_seed || client_seed || nonce (8 bytes,
\* big-endian), and no other triple whose server_seed has the same length
\* yields the same DRBG seed; in particular distinct nonces with the same
\* (server_seed, client_seed) give distinct DRBG seeds.
C9_SeedInjectiveForEqualLengths ==
    SeedBuilt =>
        /\ Len(seed) = Len(server_seed) + Len(client_seed) + NONCE_BYTES
        /\ Take(seed, Len(server_seed)) = server_seed
        /\ SubSeq(seed, Len(server_seed) + 1, Len(seed) - NONCE_BYTES)
              = client_seed
        /\ \A x \in 1..NONCE_BYTES :
              seed[Len(seed) + 1 - x] = IF x <= Len(nonce) THEN nonce[x] ELSE 0
        /\ \A t \in OtherTriples :
              Len(t[1]) = Len(server_seed) =>
                  DealSeed(t[1], t[2], t[3]) # seed

C9_Witness ==
    /\ SeedBuilt
    /\ nonce = <<1>>
    /\ client_seed = <<>>
    /\ Len(server_seed) = 1
    /\ \E t \in OtherTriples :
          Len(t[1]) = Len(server_seed) /\ t[1] # server_seed

\* ============================================================== chi_square
\* The first cards the trials' decks are drawn from: d[0] of deal's deck,
\* which the fresh secrets.token_bytes(32) server seed of line 52 decides.
FirstCards == {0, 1, 26, 51}

\* line 54: counts[v] += 1 on a Counter (a missing key counts as 0)
CounterAdd(c, v) ==
    IF v \in DOMAIN c
    THEN [c EXCEPT ![v] = c[v] + 1]
    ELSE [x \in DOMAIN c \cup {v} |-> IF x = v THEN 1 ELSE c[x]]

\* The sum over keys of (52*c[v] - n)^2.
RECURSIVE SumSquares(_, _, _)
SumSquares(c, keys, n) ==
    IF keys = {} THEN 0
    ELSE LET v == CHOOSE x \in keys : TRUE
         IN (DECK_SIZE * c[v] - n) * (DECK_SIZE * c[v] - n)
                + SumSquares(c, keys \ {v}, n)

\* lines 55-56: expected = n/52; sum((c-expected)**2/expected for c in
\* counts.values()), kept exact as numerator and denominator:
\* (c - n/52)^2 / (n/52) = (52c - n)^2 / (52n).  Float rounding is left out.
ChiSquareOf(c, n) == <<SumSquares(c, DOMAIN c, n), DECK_SIZE * n>>

\* lines 51-54: one trial
ChiTrial ==
    /\ chi_pc = "loop"
    /\ trial < num_trials
    /\ \E v \in FirstCards : counts' = CounterAdd(counts, v)
    /\ trial' = trial + 1
    /\ UNCHANGED <<num_trials, chi_pc, chi2>>
    /\ UNCHANGED <<rngVars, tableVars, harnessVars>>

\* lines 55-57: compute and return the statistic
ChiReturn ==
    /\ chi_pc = "loop"
    /\ trial = num_trials
    /\ chi2' = ChiSquareOf(counts, num_trials)
    /\ chi_pc' = "done"
    /\ UNCHANGED <<num_trials, trial, counts>>
    /\ UNCHANGED <<rngVars, tableVars, harnessVars>>

InitChi ==
    /\ num_trials \in 1..MaxTrials
    /\ trial = 0 /\ counts = <<>> /\ chi_pc = "loop" /\ chi2 = <<0, 1>>
    /\ RngIdle /\ TableIdle /\ HarnessIdle

NextChi == ChiTrial \/ ChiReturn

SpecChi == InitChi /\ [][NextChi]_vars

\* The number of trials whose first card was v.
Observed(v) == IF v \in DOMAIN counts THEN counts[v] ELSE 0

\* Pearson's statistic over all 52 categories, as numerator over 52*n.
PearsonAllCategories ==
    LET obs == [v \in 0..(DECK_SIZE - 1) |-> Observed(v)]
    IN <<SumSquares(obs, 0..(DECK_SIZE - 1), num_trials),
         DECK_SIZE * num_trials>>

\* C10: chi_square returns Pearson's statistic summed over all 52 categories,
\* a value never seen in first position counting with observed = 0.
C10_ChiSquareOverAllCategories ==
    chi_pc = "done" =>
        chi2[1] * PearsonAllCategories[2] = PearsonAllCategories[1] * chi2[2]

\* =========================================================== build_table.py
\* line 4: PRIMES, ranks 2..A
PRIMES == <<2, 3, 5, 7, 11, 13, 17, 19, 23, 29, 31, 37, 41>>

\* line 6: CARD_PRIME = [p for p in PRIMES for _ in SUITS]: card c has the
\* prime of index c div 4.
CARD_PRIME(c) == PRIMES[(c \div SUITS) + 1]

\* lines 10-12: the product of the primes of the cards of a combination
RECURSIVE PrimeProduct(_, _)
PrimeProduct(cards, n) ==
    IF n = 0 THEN 1 ELSE CARD_PRIME(cards[n]) * PrimeProduct(cards, n - 1)

(***************************************************************************)
(* evaluate_7cards of the phevaluator library: card id = rank * 4 + suit;  *)
(* the result is a rank in which a lower number is a stronger hand, and   *)
(* the nine hand categories occupy disjoint, ordered bands of that rank.  *)
(* The library is not part of this repository; the model returns the      *)
(* category of the best five-card hand (1 = straight flush ... 9 = high   *)
(* card), so that two hands of different categories are hands of          *)
(* different ranks.                                                        *)
(***************************************************************************)
RankOf(c) == c \div SUITS

SuitOf(c) == c % SUITS

HasStraight(ranks) ==
    \/ \E hi \in 4..(RANKS - 1) : (hi - 4)..hi \subseteq ranks
    \/ {RANKS - 1, 0, 1, 2, 3} \subseteq ranks

evaluate_7cards(cards) ==
    LET hand == Range(cards)
        count(r) == Cardinality({c \in hand : RankOf(c) = r})
        suited(u) == {c \in hand : SuitOf(c) = u}
        flushes == {u \in 0..(SUITS - 1) : Cardinality(suited(u)) >= 5}
        ranks == {RankOf(c) : c \in hand}
        atLeast(n) == {r \in ranks : count(r) >= n}
    IN CASE \E u \in flushes : HasStraight({RankOf(c) : c \in suited(u)}) -> 1
         [] atLeast(4) # {} -> 2
         [] \E r \in atLeast(3) : atLeast(2) \ {r} # {} -> 3
         [] flushes # {} -> 4
         [] HasStraight(ranks) -> 5
         [] atLeast(3) # {} -> 6
         [] Cardinality(atLeast(2)) >= 2 -> 7
         [] atLeast(2) # {} -> 8
         [] OTHER -> 9

\* line 9: itertools.combinations(range(n), 7) yields the sorted 7-tuples in
\* lexicographic order; FirstCombination is the first, NextCombination the
\* one after s, and LastCombination the one with no successor.
FirstCombination == [x \in 1..HAND_SIZE |-> x - 1]

MaxAt(x) == TableCards - HAND_SIZE + x - 1

LastCombination == [x \in 1..HAND_SIZE |-> MaxAt(x)]

NextCombination(s) ==
    LET movable == {x \in 1..HAND_SIZE : s[x] < MaxAt(x)}
        p == CHOOSE x \in movable : \A y \in movable : y <= x
    IN [x \in 1..HAND_SIZE |->
           IF x < p THEN s[x] ELSE s[p] + 1 + (x - p)]

\* line 13: table[product] = evaluate_7cards(*seven), a dict assignment
DictSet(t, ky, value) ==
    [x \in DOMAIN t \cup {ky} |-> IF x = ky THEN value ELSE t[x]]

\* lines 9-13: one turn of the for loop, for the combination in seven
TableStep ==
    /\ table_pc = "loop"
    /\ table' = DictSet(table, PrimeProduct(seven, HAND_SIZE),
                        evaluate_7cards(seven))
    /\ IF seven = LastCombination
       THEN table_pc' = "done" /\ UNCHANGED seven
       ELSE seven' = NextCombination(seven) /\ UNCHANGED table_pc
    /\ UNCHANGED <<rngVars, chiVars, harnessVars>>

InitTable ==
    /\ seven = FirstCombination /\ table = <<>> /\ table_pc = "loop"
    /\ RngIdle /\ ChiIdle /\ HarnessIdle

NextTable == TableStep

SpecTable == InitTable /\ [][NextTable]_vars

\* The combinations the finished loop has gone through.
RECURSIVE Sorted(_)
Sorted(S) ==
    IF S = {} THEN <<>>
    ELSE LET lo == CHOOSE x \in S : \A y \in S : x <= y
         IN <<lo>> \o Sorted(S \ {lo})

Combinations ==
    {Sorted(S) : S \in {T \in SUBSET (0..(TableCards - 1)) :
                            Cardinality(T) = HAND_SIZE}}

\* C4: when the build loop has finished, every combination's prime product
\* is a key of the table and the value under it is the rank the evaluator
\* gives that combination.
C4_TableMatchesEvaluator ==
    table_pc = "done" =>
        \A s \in Combinations :
            /\ PrimeProduct(s, HAND_SIZE) \in DOMAIN table
            /\ table[PrimeProduct(s, HAND_SIZE)] = evaluate_7cards(s)

\* ===================================================== test_deck_shuffler.py
\* line 12: server_seed, and line 13: commit_hash = server_seed**2 % 2**251.
\* Both exceed 32-bit integers and only travel as arguments, so they are
\* kept as terms.
H_SERVER_SEED == "12345678901234567890"

H_COMMIT_HASH == <<"square mod 2**251", H_SERVER_SEED>>

\* line 18: rand = [i for i in range(100,152)]
H_RAND == [x \in 1..DECK_SIZE |-> 99 + x]

\* One external call: what was called, by which account, with which request
\* id (-1: none), whether it has returned, and what it returned.
Call(op, sender, id) ==
    [op |-> op, sender |-> sender, id |-> id, returned |-> FALSE, result |-> -1]

Awaiting == calls # <<>> /\ ~calls[Len(calls)].returned

Returned(result) ==
    [calls EXCEPT ![Len(calls)] =
        [calls[Len(calls)] EXCEPT !.returned = TRUE, !.result = result]]

(***************************************************************************)
(* The deployed DeckShuffler contract, from its interface: request ids are *)
(* handed out in order; a request is "requested" until the oracle's        *)
(* fulfilment stores its deck; get_deck answers for a fulfilled request.   *)
(* A conforming contract stores the packed deck (104 elements); one that   *)
(* stores the cards unpacked is admitted too, so that the test's assertion *)
(* has both outcomes.                                                      *)
(***************************************************************************)
RECURSIVE PackAll(_, _)
PackAll(cards, n) ==
    IF n = 0 THEN <<>> ELSE PackAll(cards, n - 1) \o Felts(cards[n])

ContractDecks(rand) ==
    LET cards == [x \in 1..Len(rand) |-> rand[x] % DECK_SIZE]
    IN {PackAll(cards, Len(cards)), cards}

ContractRequest(commit) ==
    /\ requests' = DictSet(requests, next_id,
                           [commit |-> commit, status |-> "requested",
                            deck |-> <<>>])
    /\ next_id' = next_id + 1

ContractCanFulfill(id) ==
    id \in DOMAIN requests /\ requests[id].status = "requested"

ContractFulfill(id, rand, stored) ==
    /\ stored \in ContractDecks(rand)
    /\ requests' = [requests EXCEPT ![id].status = "fulfilled",
                                    ![id].deck = stored]
    /\ UNCHANGED next_id

ContractHasDeck(id) ==
    id \in DOMAIN requests /\ requests[id].status = "fulfilled"

\* A call that fails ends the test with the exception it raises.
HarnessFails(exception) ==
    /\ h_raised' = exception
    /\ h_pc' = "raised"
    /\ calls' = Returned(-1)
    /\ UNCHANGED <<req_id, h_deck, next_id, requests>>

\* line 10: shuffler = await deploy_contract(..., account=user)
SendDeploy ==
    /\ h_pc = "line 10" /\ ~Awaiting
    /\ calls' = Append(calls, Call("deploy_contract", "user", -1))
    /\ UNCHANGED <<h_pc, h_raised, req_id, h_deck, next_id, requests>>
    /\ UNCHANGED <<rngVars, chiVars, tableVars>>

DeployReturns ==
    /\ h_pc = "line 10" /\ Awaiting
    /\ \/ /\ calls' = Returned(-1)
          /\ h_pc' = "line 14"
          /\ UNCHANGED <<h_raised, req_id, h_deck, next_id, requests>>
       \/ HarnessFails("DeployError")
    /\ UNCHANGED <<rngVars, chiVars, tableVars>>

\* line 14: tx = await user.send(shuffler.request_random_deck(commit_hash))
SendRequest ==
    /\ h_pc = "line 14" /\ ~Awaiting
    /\ calls' = Append(calls, Call("request_random_deck", "user", -1))
    /\ UNCHANGED <<h_pc, h_raised, req_id, h_deck, next_id, requests>>
    /\ UNCHANGED <<rngVars, chiVars, tableVars>>

\* lines 14-15: the transaction is executed; req_id = tx.result
RequestReturns ==
    /\ h_pc = "line 14" /\ Awaiting
    /\ \/ /\ ContractRequest(H_COMMIT_HASH)
          /\ calls' = Returned(next_id)
          /\ req_id' = next_id
          /\ h_pc' = "line 19"
          /\ UNCHANGED <<h_raised, h_deck>>
       \/ HarnessFails("TransactionFailed")
    /\ UNCHANGED <<rngVars, chiVars, tableVars>>

\* The fulfilment issued while the request is still in flight: line 14
\* without its await.
SendFulfillUnawaited ==
    /\ h_pc = "line 14" /\ Awaiting
    /\ calls' = Append(calls, Call("fulfill_random_deck", "oracle", req_id))
    /\ h_pc' = "line 19"
    /\ UNCHANGED <<h_raised, req_id, h_deck, next_id, requests>>
    /\ UNCHANGED <<rngVars, chiVars, tableVars>>

\* lines 19-21: await oracle.send(shuffler.fulfill_random_deck(req_id, ...))
SendFulfill ==
    /\ h_pc = "line 19" /\ ~Awaiting
    /\ calls' = Append(calls, Call("fulfill_random_deck", "oracle", req_id))
    /\ UNCHANGED <<h_pc, h_raised, req_id, h_deck, next_id, requests>>
    /\ UNCHANGED <<rngVars, chiVars, tableVars>>

FulfillReturns ==
    /\ h_pc = "line 19" /\ Awaiting
    /\ \/ /\ ContractCanFulfill(calls[Len(calls)].id)
          /\ \E stored \in ContractDecks(H_RAND) :
                ContractFulfill(calls[Len(calls)].id, H_RAND, stored)
          /\ calls' = Returned(-1)
          /\ h_pc' = "line 23"
          /\ UNCHANGED <<h_raised, req_id, h_deck>>
       \/ HarnessFails("TransactionFailed")
    /\ UNCHANGED <<rngVars, chiVars, tableVars>>

\* line 23: deck = await shuffler.get_deck(req_id)
SendGetDeck ==
    /\ h_pc = "line 23" /\ ~Awaiting
    /\ calls' = Append(calls, Call("get_deck", "none", req_id))
    /\ UNCHANGED <<h_pc, h_raised, req_id, h_deck, next_id, requests>>
    /\ UNCHANGED <<rngVars, chiVars, tableVars>>

GetDeckReturns ==
    /\ h_pc = "line 23" /\ Awaiting
    /\ \/ /\ ContractHasDeck(calls[Len(calls)].id)
          /\ h_deck' = requests[calls[Len(calls)].id].deck
          /\ calls' = Returned(Len(h_deck'))
          /\ h_pc' = "line 24"
          /\ UNCHANGED <<h_raised, req_id, next_id, requests>>
       \/ HarnessFails("CallFailed")
    /\ UNCHANGED <<rngVars, chiVars, tableVars>>

\* line 24: assert len(deck) == 104
AssertDeckLength ==
    /\ h_pc = "line 24"
    /\ IF Len(h_deck) = PACKED_SIZE
       THEN h_pc' = "passed" /\ UNCHANGED h_raised
       ELSE h_pc' = "raised" /\ h_raised' = "AssertionError"
    /\ UNCHANGED <<calls, req_id, h_deck, next_id, requests>>
    /\ UNCHANGED <<rngVars, chiVars, tableVars>>

\* The devnet the test starts on: the contract may have served earlier
\* requests, all of them fulfilled.
InitHarness ==
    /\ h_pc = "line 10" /\ h_raised = "none" /\ calls = <<>>
    /\ req_id = -1 /\ h_deck = <<>>
    /\ next_id \in 0..MaxPriorRequests
    /\ requests = [x \in 0..(next_id - 1) |->
                      [commit |-> H_COMMIT_HASH, status |-> "fulfilled",
                       deck |-> <<>>]]
    /\ RngIdle /\ ChiIdle /\ TableIdle

NextHarness ==
    \/ SendDeploy
    \/ DeployReturns
    \/ SendRequest
    \/ RequestReturns
    \/ SendFulfill
    \/ FulfillReturns
    \/ SendGetDeck
    \/ GetDeckReturns
    \/ AssertDeckLength

SpecHarness == InitHarness /\ [][NextHarness]_vars

HarnessOrder ==
    <<"deploy_contract", "request_random_deck", "fulfill_random_deck",
      "get_deck">>

\* C6: the external calls are issued in the order request_random_deck (by
\* the user) -> fulfill_random_deck (by the oracle) -> get_deck, each one
\* only after the one before has returned; fulfill_random_deck and get_deck
\* carry the request id the completed request returned, and get_deck is
\* only issued for a request the contract has fulfilled.
C6_HarnessCallOrder ==
    /\ Len(calls) <= Len(HarnessOrder)
    /\ \A n \in 1..Len(calls) :
          /\ calls[n].op = HarnessOrder[n]
          /\ n < Len(calls) => calls[n].returned
    /\ Len(calls) >= 2 => calls[2].sender = "user"
    /\ Len(calls) >= 3 =>
          /\ calls[3].sender = "oracle"
          /\ calls[2].returned
          /\ calls[2].result >= 0
          /\ calls[3].id = calls[2].result
          /\ calls[3].id \in DOMAIN requests
    /\ Len(calls) >= 4 =>
          /\ calls[3].returned
          /\ calls[4].id = calls[2].result
          /\ calls[4].id \in DOMAIN requests
          /\ requests[calls[4].id].status = "fulfilled"

C6_Witness ==
    /\ h_pc = "passed"
    /\ Len(calls) = 4
    /\ calls[4].op = "get_deck"
    /\ calls[4].returned
    /\ calls[4].id = req_id
    /\ req_id > 0
    /\ Len(h_deck) = PACKED_SIZE

=============================================================================
